---------------------------- MODULE Spec2Model ----------------------------
(***************************************************************************)
(* Warehouse Management System (src/main.c): the category index (a binary  *)
(* search tree keyed by category name), the per-category product lists,    *)
(* the stock operations, the stock analysis and the menu driver.           *)
(*                                                                         *)
(* Strings are sequences of character codes, compared as strcmp compares   *)
(* them.  A product list is a sequence, head first.  An int is a 32-bit    *)
(* two's complement integer.                                               *)
(***************************************************************************)
EXTENDS Integers, Sequences, FiniteSets, Bags, TLC

VARIABLES
    root,      \* CategoryNode *root: the category tree (main.c:62)
    nalloc,    \* number of Product records insertProduct has malloc'ed (never freed)
    pc,        \* where the process is: "start" (in main, before the file is read), "menu", "done" (loop left) or "crashed"
    cmd,       \* the command the menu loop just executed, with the inputs it read
    out,       \* what that command reported (its printf output, abstracted)
    prev,      \* history: the category tree before that command
    inserted,  \* history: the names inserted and not deleted since
    ndec,      \* history: number of decrease commands executed
    productsFile, \* products.txt: whether fopen opens it, and its records
    mainHead   \* Product *head of main: what readProductsFromFile returned

vars == <<root, nalloc, pc, cmd, out, prev, inserted, ndec, productsFile, mainHead>>

(***************************************************************************)
(* Strings                                                                 *)
(***************************************************************************)
Auto   == <<65, 117, 116, 111>>
Food   == <<70, 111, 111, 100>>
Tool   == <<84, 111, 111, 108>>
Tools  == <<84, 111, 111, 108, 115>>
Hammer == <<72, 97, 109, 109, 101, 114>>
Nail   == <<78, 97, 105, 108>>
Screwdriver == <<83, 99, 114, 101, 119, 100, 114, 105, 118, 101, 114>>

\* the character at position i of a NUL-terminated string (0 past its end)
CharAt(s, i) == IF i <= Len(s) THEN s[i] ELSE 0

RECURSIVE StrCmpFrom(_, _, _)
StrCmpFrom(a, b, i) ==
    IF CharAt(a, i) # CharAt(b, i)
    THEN (IF CharAt(a, i) < CharAt(b, i) THEN -1 ELSE 1)
    ELSE IF CharAt(a, i) = 0 THEN 0
    ELSE StrCmpFrom(a, b, i + 1)

\* strcmp(a, b): negative, zero or positive
strcmp(a, b) == StrCmpFrom(a, b, 1)

(***************************************************************************)
(* 32-bit int arithmetic (a signed overflow wraps around)                  *)
(***************************************************************************)
INT_MAX == 2147483647
INT_MIN == (-INT_MAX) - 1

\* a + b in int
AddInt(a, b) ==
    IF b > 0 /\ a > INT_MAX - b
    THEN ((a - INT_MAX) - 1) + ((b - INT_MAX) - 1)
    ELSE IF b < 0 /\ a < INT_MIN - b
    THEN ((a + INT_MAX) + 1) + ((b + INT_MAX) + 1)
    ELSE a + b

\* a - b in int
SubInt(a, b) ==
    IF b < 0 /\ a > INT_MAX + b
    THEN ((a - INT_MAX) - 1) - ((b + INT_MAX) + 1)
    ELSE IF b > 0 /\ a < INT_MIN + b
    THEN ((a + INT_MAX) + 1) - ((b - INT_MAX) - 1)
    ELSE a - b

(***************************************************************************)
(* The category tree                                                       *)
(***************************************************************************)
NULL == [null |-> TRUE]

\* struct CategoryNode
CategoryNode(category, productsHead, left, right) ==
    [category |-> category, productsHead |-> productsHead,
     left |-> left, right |-> right]

\* struct Product (addr: the address malloc gave it)
Product(addr, productId, name, quantity, category) ==
    [addr |-> addr, productId |-> productId, name |-> name,
     quantity |-> quantity, category |-> category]

\* (an insertCategory without the test for a greater name: an equal name
\* goes to the right like a greater one)
RECURSIVE insertCategoryNoEqualCase(_, _)
insertCategoryNoEqualCase(node, category) ==
    IF node = NULL
    THEN CategoryNode(category, <<>>, NULL, NULL)
    ELSE IF strcmp(category, node.category) < 0
    THEN [node EXCEPT !.left = insertCategoryNoEqualCase(node.left, category)]
    ELSE [node EXCEPT !.right = insertCategoryNoEqualCase(node.right, category)]

RECURSIVE insertCategory(_, _)
insertCategory(node, category) ==
    IF node = NULL
    THEN CategoryNode(category, <<>>, NULL, NULL)
    ELSE IF strcmp(category, node.category) < 0
    THEN [node EXCEPT !.left = insertCategory(node.left, category)]
    ELSE IF strcmp(category, node.category) > 0
    THEN [node EXCEPT !.right = insertCategory(node.right, category)]
    ELSE node

\* (a deleteCategory that takes the right child as successor without
\* walking down to its leftmost node)
LeftMostNoWalk(temp) == temp

\* the while loop of deleteCategory: the leftmost node of a subtree
RECURSIVE LeftMost(_)
LeftMost(temp) == IF temp.left # NULL THEN LeftMost(temp.left) ELSE temp

\* (a deleteCategory without the test for a greater name: a node with a
\* smaller name is taken for the node to delete)
RECURSIVE deleteCategoryNoGreaterTest(_, _)
deleteCategoryNoGreaterTest(node, category) ==
    IF node = NULL THEN NULL
    ELSE IF strcmp(category, node.category) < 0
    THEN [node EXCEPT !.left = deleteCategoryNoGreaterTest(node.left, category)]
    ELSE IF node.left = NULL THEN node.right
    ELSE IF node.right = NULL THEN node.left
    ELSE LET temp == LeftMost(node.right)
         IN  [node EXCEPT !.category = temp.category,
                          !.right = deleteCategoryNoGreaterTest(node.right, temp.category)]

RECURSIVE deleteCategory(_, _)
deleteCategory(node, category) ==
    IF node = NULL THEN NULL
    ELSE IF strcmp(category, node.category) < 0
    THEN [node EXCEPT !.left = deleteCategory(node.left, category)]
    ELSE IF strcmp(category, node.category) > 0
    THEN [node EXCEPT !.right = deleteCategory(node.right, category)]
    ELSE IF node.left = NULL THEN node.right
    ELSE IF node.right = NULL THEN node.left
    ELSE LET temp == LeftMost(node.right)
         IN  [node EXCEPT !.category = temp.category,
                          !.right = deleteCategory(node.right, temp.category)]

\* (a findCategory that descends to the wrong side)
RECURSIVE findCategoryWrongSide(_, _)
findCategoryWrongSide(node, category) ==
    IF node = NULL THEN NULL
    ELSE IF strcmp(category, node.category) = 0 THEN node
    ELSE IF strcmp(category, node.category) < 0
    THEN findCategoryWrongSide(node.right, category)
    ELSE findCategoryWrongSide(node.left, category)

RECURSIVE findCategory(_, _)
findCategory(node, category) ==
    IF node = NULL THEN NULL
    ELSE IF strcmp(category, node.category) = 0 THEN node
    ELSE IF strcmp(category, node.category) < 0
    THEN findCategory(node.left, category)
    ELSE findCategory(node.right, category)

\* the tree with the product list of the node findCategory returns replaced
RECURSIVE SetProductsHead(_, _, _)
SetProductsHead(node, category, head) ==
    IF node = NULL THEN NULL
    ELSE IF strcmp(category, node.category) = 0
    THEN [node EXCEPT !.productsHead = head]
    ELSE IF strcmp(category, node.category) < 0
    THEN [node EXCEPT !.left = SetProductsHead(node.left, category, head)]
    ELSE [node EXCEPT !.right = SetProductsHead(node.right, category, head)]

\* (an insertProduct that links the new record behind the last one)
insertProductAtEnd(head, addr, productId, name, quantity) ==
    head \o <<Product(addr, productId, name, quantity, name)>>

\* insertProduct: the new record goes in front; its category label is
\* copied from name (main.c:223)
insertProduct(head, addr, productId, name, quantity) ==
    <<Product(addr, productId, name, quantity, name)>> \o head

\* the nodes of the tree in the order displayCategories visits them
RECURSIVE InOrder(_)
InOrder(node) ==
    IF node = NULL THEN <<>>
    ELSE InOrder(node.left) \o <<node>> \o InOrder(node.right)

\* the while loop of readProductsFromFile from record i of the file on:
\* each record read is handed to insertProduct, which has no parameter for
\* the category read into the fifth argument
RECURSIVE ReadLoop(_, _, _, _)
ReadLoop(records, i, head, addr) ==
    IF i > Len(records) THEN head
    ELSE ReadLoop(records, i + 1,
            insertProduct(head, addr + 1, records[i].productId,
                          records[i].name, records[i].quantity),
            addr + 1)

\* readProductsFromFile: the list it returns and what it prints; addr is
\* the number of records allocated before the call
readProductsFromFile(file, addr) ==
    IF ~file.open
    THEN [head |-> <<>>, out |-> <<[msg |-> "UnableToOpenFile"]>>]
    ELSE [head |-> ReadLoop(file.records, 1, <<>>, addr), out |-> <<>>]

(***************************************************************************)
(* Stock operations                                                        *)
(***************************************************************************)
\* findProduct: the position of the first record with that id, 0 for NULL
RECURSIVE FindFrom(_, _, _)
FindFrom(head, productId, i) ==
    IF i > Len(head) THEN 0
    ELSE IF head[i].productId = productId THEN i
    ELSE FindFrom(head, productId, i + 1)

findProduct(head, productId) == FindFrom(head, productId, 1)

\* updateProduct: the tree afterwards and the lines printed.  The call on
\* the left subtree returns nothing, so the node's own list is searched
\* whatever happened there; the right subtree is skipped when the node's
\* own list holds the id.
RECURSIVE updateProduct(_, _, _)
updateProduct(node, productId, newQuantity) ==
    IF node = NULL THEN [node |-> NULL, out |-> <<>>]
    ELSE LET l == updateProduct(node.left, productId, newQuantity)
             product == findProduct(node.productsHead, productId)
         IN  IF product # 0
             THEN [node |-> [node EXCEPT
                                !.left = l.node,
                                !.productsHead[product].quantity = newQuantity],
                   out  |-> l.out \o <<[msg |-> "Updated", quantity |-> newQuantity]>>]
             ELSE LET r == updateProduct(node.right, productId, newQuantity)
                  IN  [node |-> [node EXCEPT !.left = l.node, !.right = r.node],
                       out  |-> l.out \o r.out]

\* the body of deleteProduct for the record it found: the record's new
\* quantity and the line printed
DecreaseFound(quantity, decreaseQuantity) ==
    IF quantity >= decreaseQuantity
    THEN [quantity |-> SubInt(quantity, decreaseQuantity),
          line |-> [msg |-> "Decreased", by |-> decreaseQuantity,
                    quantity |-> SubInt(quantity, decreaseQuantity)]]
    ELSE [quantity |-> quantity,
          line |-> [msg |-> "NotEnoughStock", by |-> decreaseQuantity,
                    quantity |-> quantity]]

\* deleteProduct: the tree afterwards and the lines printed; it walks the
\* tree as updateProduct does
RECURSIVE deleteProduct(_, _, _)
deleteProduct(node, productId, decreaseQuantity) ==
    IF node = NULL THEN [node |-> NULL, out |-> <<>>]
    ELSE LET l == deleteProduct(node.left, productId, decreaseQuantity)
             product == findProduct(node.productsHead, productId)
         IN  IF product # 0
             THEN LET d == DecreaseFound(node.productsHead[product].quantity,
                                         decreaseQuantity)
                  IN  [node |-> [node EXCEPT
                                    !.left = l.node,
                                    !.productsHead[product].quantity = d.quantity],
                       out  |-> l.out \o <<d.line>>]
             ELSE LET r == deleteProduct(node.right, productId, decreaseQuantity)
                  IN  [node |-> [node EXCEPT !.left = l.node, !.right = r.node],
                       out  |-> l.out \o r.out]

\* the records the walk of updateProduct and deleteProduct finds, in the
\* order it finds them
RECURSIVE Located(_, _)
Located(node, productId) ==
    IF node = NULL THEN <<>>
    ELSE IF findProduct(node.productsHead, productId) # 0
    THEN Located(node.left, productId)
            \o <<node.productsHead[findProduct(node.productsHead, productId)]>>
    ELSE Located(node.left, productId) \o Located(node.right, productId)

(***************************************************************************)
(* Analysis and reports                                                    *)
(***************************************************************************)
\* double averageQuantity = (double)totalQuantity / count, kept as the
\* fraction; 0.0 / 0 is a NaN
Average(totalQuantity, count) == [num |-> totalQuantity, den |-> count]
IsNaN(average) == average.den = 0

\* quantity < averageQuantity in double (false against a NaN)
LessThanAverage(quantity, average) ==
    /\ ~IsNaN(average)
    /\ \/ quantity < average.num \div average.den
       \/ /\ quantity = average.num \div average.den
          /\ average.num % average.den # 0

\* quantity > averageQuantity in double (false against a NaN)
GreaterThanAverage(quantity, average) ==
    /\ ~IsNaN(average)
    /\ quantity > average.num \div average.den

\* the first loop of analyzeProducts, from the record at position i on
RECURSIVE FirstPass(_, _, _)
FirstPass(head, i, acc) ==
    IF i > Len(head) THEN acc
    ELSE FirstPass(head, i + 1,
            [totalQuantity   |-> AddInt(acc.totalQuantity, head[i].quantity),
             count           |-> acc.count + 1,
             maxStockProduct |->
                 IF acc.maxStockProduct = NULL
                    \/ head[i].quantity > acc.maxStockProduct.quantity
                 THEN head[i] ELSE acc.maxStockProduct,
             minStockProduct |->
                 IF acc.minStockProduct = NULL
                    \/ head[i].quantity < acc.minStockProduct.quantity
                 THEN head[i] ELSE acc.minStockProduct])

\* (a second pass that links the record itself into the result list)
CopyOfShared(current, k) == current

\* *newProduct = *current for the k-th record the analysis allocates
\* (its own allocations have the addresses -1, -2, ...)
CopyOf(current, k) == [current EXCEPT !.addr = 0 - k]

\* (a second loop that links each copy behind the last one of its list)
RECURSIVE SecondPassKeepOrder(_, _, _, _)
SecondPassKeepOrder(head, i, averageQuantity, acc) ==
    IF i > Len(head) THEN acc
    ELSE LET k == Len(acc.lowStockProducts) + Len(acc.highStockProducts) + 1
         IN  IF LessThanAverage(head[i].quantity, averageQuantity)
             THEN SecondPassKeepOrder(head, i + 1, averageQuantity,
                     [acc EXCEPT !.lowStockProducts = @ \o <<CopyOf(head[i], k)>>])
             ELSE IF GreaterThanAverage(head[i].quantity, averageQuantity)
             THEN SecondPassKeepOrder(head, i + 1, averageQuantity,
                     [acc EXCEPT !.highStockProducts = @ \o <<CopyOf(head[i], k)>>])
             ELSE SecondPassKeepOrder(head, i + 1, averageQuantity, acc)

\* (a second loop whose else branch also takes the records at the average)
RECURSIVE SecondPassNoStrictHigh(_, _, _, _)
SecondPassNoStrictHigh(head, i, averageQuantity, acc) ==
    IF i > Len(head) THEN acc
    ELSE LET k == Len(acc.lowStockProducts) + Len(acc.highStockProducts) + 1
         IN  IF LessThanAverage(head[i].quantity, averageQuantity)
             THEN SecondPassNoStrictHigh(head, i + 1, averageQuantity,
                     [acc EXCEPT !.lowStockProducts = <<CopyOf(head[i], k)>> \o @])
             ELSE SecondPassNoStrictHigh(head, i + 1, averageQuantity,
                     [acc EXCEPT !.highStockProducts = <<CopyOf(head[i], k)>> \o @])

\* the second loop of analyzeProducts: each copy goes in front of its list
RECURSIVE SecondPass(_, _, _, _)
SecondPass(head, i, averageQuantity, acc) ==
    IF i > Len(head) THEN acc
    ELSE LET k == Len(acc.lowStockProducts) + Len(acc.highStockProducts) + 1
         IN  IF LessThanAverage(head[i].quantity, averageQuantity)
             THEN SecondPass(head, i + 1, averageQuantity,
                     [acc EXCEPT !.lowStockProducts = <<CopyOf(head[i], k)>> \o @])
             ELSE IF GreaterThanAverage(head[i].quantity, averageQuantity)
             THEN SecondPass(head, i + 1, averageQuantity,
                     [acc EXCEPT !.highStockProducts = <<CopyOf(head[i], k)>> \o @])
             ELSE SecondPass(head, i + 1, averageQuantity, acc)

\* AnalysisResult analyzeProducts(Product *head)
analyzeProducts(head) ==
    LET first == FirstPass(head, 1,
                    [totalQuantity |-> 0, count |-> 0,
                     maxStockProduct |-> NULL, minStockProduct |-> NULL])
        averageQuantity == Average(first.totalQuantity, first.count)
        second == SecondPass(head, 1, averageQuantity,
                    [lowStockProducts |-> <<>>, highStockProducts |-> <<>>])
    IN  [lowStockProducts  |-> second.lowStockProducts,
         highStockProducts |-> second.highStockProducts,
         maxStockProduct   |-> first.maxStockProduct,
         minStockProduct   |-> first.minStockProduct,
         totalQuantity     |-> first.totalQuantity,
         count             |-> first.count,
         averageQuantity   |-> averageQuantity]

\* the nested loops of printProductsReport: current and index are local
\* pointers (here positions, Len(head) + 1 for NULL); the swap exchanges
\* the two pointers and writes to no record, so the list the loops leave
\* is the list they were given
RECURSIVE SortLoops(_, _, _)
SortLoops(head, current, index) ==
    IF current > Len(head) THEN head
    ELSE IF index > Len(head) THEN SortLoops(head, current + 1, current + 2)
    ELSE IF head[current].productId > head[index].productId
    THEN SortLoops(head, index, current + 1)
    ELSE SortLoops(head, current, index + 1)

\* printProductsReport: the rows printed under the header
printProductsReport(head) ==
    LET sorted == SortLoops(head, 1, 2)
    IN  [i \in 1..Len(sorted) |->
            [productId |-> sorted[i].productId, name |-> sorted[i].name,
             quantity |-> sorted[i].quantity, category |-> sorted[i].category]]

\* displayProducts: one line per record, in list order
displayProducts(head) ==
    [i \in 1..Len(head) |->
        [msg |-> "Product", productId |-> head[i].productId,
         name |-> head[i].name, quantity |-> head[i].quantity]]

\* displayCategories: each category in traversal order, then its products
RECURSIVE displayCategories(_)
displayCategories(node) ==
    IF node = NULL THEN <<>>
    ELSE displayCategories(node.left)
            \o <<[msg |-> "Category", category |-> node.category]>>
            \o displayProducts(node.productsHead)
            \o displayCategories(node.right)

(***************************************************************************)
(* The menu loop                                                           *)
(***************************************************************************)
\* Product records the model lets insertProduct allocate
MaxProducts == 3
\* decrease commands the model lets a run execute
MaxDecreases == 2
\* Product records the stock specification lets a run allocate
MaxStockProducts == 2
MaxRecords == 2

NoCmd == [choice |-> 0]
NoOut == <<>>

\* a products.txt that fopen does not open
NoFile == [open |-> FALSE, records |-> <<>>]

\* the menu loop starts; there was no products.txt, so main's head is NULL
Init ==
    /\ root = NULL
    /\ nalloc = 0
    /\ pc = "menu"
    /\ cmd = NoCmd
    /\ out = NoOut
    /\ prev = NULL
    /\ inserted = {}
    /\ ndec = 0
    /\ productsFile = NoFile
    /\ mainHead = <<>>

\* main: head = readProductsFromFile("products.txt"); menu();  head is not
\* used again
main ==
    /\ pc = "start"
    /\ mainHead' = readProductsFromFile(productsFile, nalloc).head
    /\ out' = readProductsFromFile(productsFile, nalloc).out
    /\ nalloc' = nalloc + Len(readProductsFromFile(productsFile, nalloc).head)
    /\ pc' = "menu"
    /\ UNCHANGED <<root, cmd, prev, inserted, ndec, productsFile>>

\* case 1
AddCategory(category) ==
    /\ pc = "menu"
    /\ root' = insertCategory(root, category)
    /\ cmd' = [choice |-> 1, category |-> category]
    /\ out' = <<[msg |-> "CategoryAdded", category |-> category]>>
    /\ prev' = root
    /\ inserted' = inserted \cup {category}
    /\ UNCHANGED <<nalloc, pc, ndec, productsFile, mainHead>>

\* case 2
DeleteCategory(category) ==
    /\ pc = "menu"
    /\ root' = deleteCategory(root, category)
    /\ cmd' = [choice |-> 2, category |-> category]
    /\ out' = <<[msg |-> "CategoryDeleted", category |-> category]>>
    /\ prev' = root
    /\ inserted' = inserted \ {category}
    /\ UNCHANGED <<nalloc, pc, ndec, productsFile, mainHead>>

\* (an add-product that creates the category when findCategory does not
\* find it)
AddProductCreatingCategory(category, productId, productName, quantity) ==
    /\ pc = "menu"
    /\ nalloc < MaxProducts
    /\ cmd' = [choice |-> 3, category |-> category, productId |-> productId,
               productName |-> productName, quantity |-> quantity]
    /\ root' = SetProductsHead(insertCategory(root, category), category,
                  insertProduct(
                     findCategory(insertCategory(root, category), category).productsHead,
                     nalloc + 1, productId, productName, quantity))
    /\ nalloc' = nalloc + 1
    /\ out' = <<[msg |-> "ProductAdded"]>>
    /\ prev' = root
    /\ UNCHANGED <<pc, inserted, ndec, productsFile, mainHead>>

\* case 3
AddProduct(category, productId, productName, quantity) ==
    /\ pc = "menu"
    /\ nalloc < MaxProducts
    /\ cmd' = [choice |-> 3, category |-> category, productId |-> productId,
               productName |-> productName, quantity |-> quantity]
    /\ IF findCategory(root, category) # NULL
       THEN /\ root' = SetProductsHead(root, category,
                          insertProduct(findCategory(root, category).productsHead,
                                        nalloc + 1, productId, productName, quantity))
            /\ nalloc' = nalloc + 1
            /\ out' = <<[msg |-> "ProductAdded"]>>
       ELSE /\ UNCHANGED <<root, nalloc>>
            /\ out' = <<[msg |-> "CategoryDoesNotExist"]>>
    /\ prev' = root
    /\ UNCHANGED <<pc, inserted, ndec, productsFile, mainHead>>

\* case 4
UpdateStock(productId, quantity) ==
    /\ pc = "menu"
    /\ root' = updateProduct(root, productId, quantity).node
    /\ cmd' = [choice |-> 4, productId |-> productId, quantity |-> quantity]
    /\ out' = updateProduct(root, productId, quantity).out
    /\ prev' = root
    /\ UNCHANGED <<nalloc, pc, inserted, ndec, productsFile, mainHead>>

\* case 5
DecreaseStock(productId, quantity) ==
    /\ pc = "menu"
    /\ ndec < MaxDecreases
    /\ root' = deleteProduct(root, productId, quantity).node
    /\ cmd' = [choice |-> 5, productId |-> productId, quantity |-> quantity]
    /\ out' = deleteProduct(root, productId, quantity).out
    /\ prev' = root
    /\ ndec' = ndec + 1
    /\ UNCHANGED <<nalloc, pc, inserted, productsFile, mainHead>>

\* case 6: the loop condition is choice != 6, so the loop ends here
DisplayAll ==
    /\ pc = "menu"
    /\ cmd' = [choice |-> 6]
    /\ out' = displayCategories(root)
    /\ prev' = root
    /\ pc' = "done"
    /\ UNCHANGED <<root, nalloc, inserted, ndec, productsFile, mainHead>>

\* case 7: printAnalysisReport(root->productsHead).  root->productsHead
\* reads through root, and the report reads through maxStockProduct right
\* after printing the total and the average: through a null pointer either
\* read ends the process.
Analyze ==
    /\ pc = "menu"
    /\ cmd' = [choice |-> 7]
    /\ prev' = root
    /\ IF root = NULL
       THEN /\ pc' = "crashed"
            /\ out' = <<>>
       ELSE LET result == analyzeProducts(root.productsHead)
            IN  IF result.maxStockProduct = NULL
                THEN /\ pc' = "crashed"
                     /\ out' = <<[msg |-> "Total", totalQuantity |-> result.totalQuantity],
                                 [msg |-> "Average", averageQuantity |-> result.averageQuantity]>>
                ELSE /\ pc' = pc
                     /\ out' = <<[msg |-> "AnalysisReport", result |-> result]>>
    /\ UNCHANGED <<root, nalloc, inserted, ndec, productsFile, mainHead>>

\* case 8: printProductsReport(root->productsHead)
PrintList ==
    /\ pc = "menu"
    /\ cmd' = [choice |-> 8]
    /\ prev' = root
    /\ IF root = NULL
       THEN /\ pc' = "crashed"
            /\ out' = <<>>
            /\ root' = root
       ELSE /\ pc' = pc
            /\ out' = <<[msg |-> "InventoryList",
                         rows |-> printProductsReport(root.productsHead)]>>
            \* the list as the loops of printProductsReport leave it
            /\ root' = [root EXCEPT
                           !.productsHead = SortLoops(root.productsHead, 1, 2)]
    /\ UNCHANGED <<nalloc, inserted, ndec, productsFile, mainHead>>

\* case 9: prints "Exiting..."; the loop condition does not test for 9
Exit ==
    /\ pc = "menu"
    /\ cmd' = [choice |-> 9]
    /\ out' = <<[msg |-> "Exiting"]>>
    /\ prev' = root
    /\ UNCHANGED <<root, nalloc, pc, inserted, ndec, productsFile, mainHead>>

\* default
InvalidChoice ==
    /\ pc = "menu"
    /\ cmd' = [choice |-> 10]
    /\ out' = <<[msg |-> "InvalidChoice"]>>
    /\ prev' = root
    /\ UNCHANGED <<root, nalloc, pc, inserted, ndec, productsFile, mainHead>>

(***************************************************************************)
(* Specifications                                                          *)
(***************************************************************************)
CategoryNames == {Auto, Food, Tool, Tools}

\* the index: categories come and go, products are added
NextIndex ==
    \/ \E c \in CategoryNames : AddCategory(c)
    \/ \E c \in CategoryNames : DeleteCategory(c)
    \/ \E c \in CategoryNames : AddProduct(c, 1, Hammer, 10)

SpecIndex == Init /\ [][NextIndex]_vars

\* the stock: products are added, restocked and decreased
StockCategories == {Auto, Food}
StockQuantities == {-5, 10, INT_MAX}
NewQuantities   == {0}
Amounts         == {-1, 1, 15}

NextStock ==
    \/ \E c \in StockCategories : AddCategory(c)
    \/ \E c \in StockCategories, q \in StockQuantities :
          nalloc < MaxStockProducts /\ AddProduct(c, 1, Hammer, q)
    \/ \E id \in {1, 2}, q \in NewQuantities : UpdateStock(id, q)
    \/ \E id \in {1, 2}, d \in Amounts : DecreaseStock(id, d)

SpecStock == Init /\ [][NextStock]_vars

\* the reports: the list of the root category is analysed and printed
ReportCategories == {Food}
ReportQuantities == {5, 10, 15, INT_MAX}

NextReport ==
    \/ \E c \in ReportCategories : AddCategory(c)
    \/ \E c \in ReportCategories, id \in {1, 2}, q \in ReportQuantities :
          AddProduct(c, id, Hammer, q)
    \/ Analyze
    \/ PrintList
    \/ DisplayAll

SpecReport == Init /\ [][NextReport]_vars

\* the categories and products of the worked example of the specification
ScenarioCategories == {Tools, Food}
ScenarioProducts ==
    {[productId |-> 1, name |-> Hammer, quantity |-> 10],
     [productId |-> 2, name |-> Nail, quantity |-> 100],
     [productId |-> 3, name |-> Screwdriver, quantity |-> 5]}

NextScenario ==
    \/ \E c \in ScenarioCategories : AddCategory(c)
    \/ \E c \in ScenarioCategories, p \in ScenarioProducts :
          AddProduct(c, p.productId, p.name, p.quantity)
    \/ Analyze

SpecScenario == Init /\ [][NextScenario]_vars

\* the program from its start, over the product files of up to MaxRecords
\* records
FileRecords ==
    {[productId |-> 1, name |-> Hammer, quantity |-> 10, category |-> Tools],
     [productId |-> 2, name |-> Nail, quantity |-> 100, category |-> Food]}
Files ==
    {NoFile} \cup
    {[open |-> TRUE, records |-> s] :
        s \in UNION {[1..n -> FileRecords] : n \in 0..MaxRecords}}

InitLoad ==
    /\ root = NULL
    /\ nalloc = 0
    /\ pc = "start"
    /\ cmd = NoCmd
    /\ out = NoOut
    /\ prev = NULL
    /\ inserted = {}
    /\ ndec = 0
    /\ productsFile \in Files
    /\ mainHead = <<>>

NextLoad ==
    \/ main
    \/ \E c \in ScenarioCategories : AddCategory(c)
    \/ \E c \in ScenarioCategories : AddProduct(c, 3, Screwdriver, 5)
    \/ DisplayAll

SpecLoad == InitLoad /\ [][NextLoad]_vars

\* the whole menu
Next ==
    \/ \E c \in StockCategories : AddCategory(c)
    \/ \E c \in StockCategories : DeleteCategory(c)
    \/ \E c \in StockCategories, q \in {0, 10} :
          nalloc < MaxStockProducts /\ AddProduct(c, 1, Hammer, q)
    \/ \E id \in {1, 2}, q \in NewQuantities : UpdateStock(id, q)
    \/ \E id \in {1, 2}, d \in {1, 15} : DecreaseStock(id, d)
    \/ DisplayAll
    \/ Analyze
    \/ PrintList
    \/ Exit
    \/ InvalidChoice

Spec == Init /\ [][Next]_vars

(***************************************************************************)
(* The category index: ordering, deletion, lookup                          *)
(***************************************************************************)
\* the category names in traversal order
InOrderNames(node) == [i \in 1..Len(InOrder(node)) |-> InOrder(node)[i].category]

\* the product lists of the tree, as a function of the category name
RECURSIVE NodeSet(_)
NodeSet(node) ==
    IF node = NULL THEN {}
    ELSE {node} \cup NodeSet(node.left) \cup NodeSet(node.right)

\* the addresses of the products reachable from the tree
ReachableAddrs(node) ==
    UNION {{n.productsHead[i].addr : i \in 1..Len(n.productsHead)} : n \in NodeSet(node)}

\* the last command deleted a category that was present ...
DeletedPresent ==
    cmd.choice = 2 /\ findCategory(prev, cmd.category) # NULL
\* ... and whose node had no child, one child, two children
DeletedLeaf ==
    /\ DeletedPresent
    /\ findCategory(prev, cmd.category).left = NULL
    /\ findCategory(prev, cmd.category).right = NULL
DeletedOneChild ==
    /\ DeletedPresent
    /\ (findCategory(prev, cmd.category).left = NULL)
         # (findCategory(prev, cmd.category).right = NULL)
DeletedTwoChildren ==
    /\ DeletedPresent
    /\ findCategory(prev, cmd.category).left # NULL
    /\ findCategory(prev, cmd.category).right # NULL

\* C1: in every reachable state the in-order traversal of the tree yields
\* the stored names in strictly ascending strcmp order (so without
\* duplicates), and they are the names inserted and not deleted since.
C1_InOrderAscending ==
    /\ \A i, j \in 1..Len(InOrder(root)) :
          i < j => strcmp(InOrderNames(root)[i], InOrderNames(root)[j]) < 0
    /\ {InOrderNames(root)[i] : i \in 1..Len(InOrder(root))} = inserted

\* a two-child deletion whose successor was not the right child itself has
\* just left a tree of three categories
C1_Witness ==
    /\ DeletedTwoChildren
    /\ findCategory(prev, cmd.category).right.left # NULL
    /\ Len(InOrder(root)) = 3

\* C2 (as claimed): after deleteCategory(root, name) every other category
\* is still found and owns exactly the product list it owned before.
C2_OthersUntouched ==
    cmd.choice = 2 =>
        \A n \in NodeSet(prev) :
            n.category # cmd.category =>
                /\ findCategory(root, n.category) # NULL
                /\ findCategory(root, n.category).productsHead = n.productsHead

\* C3 (as claimed): after deleteCategory(root, name) no product that was in
\* the list of name is reachable from the tree.
C3_ProductsDiscarded ==
    DeletedPresent =>
        \A i \in 1..Len(findCategory(prev, cmd.category).productsHead) :
            findCategory(prev, cmd.category).productsHead[i].addr
                \notin ReachableAddrs(root)

\* C4: findCategory returns a node exactly for the names inserted and not
\* deleted since, and that node carries the name; right after a deletion
\* the deleted name is not found.
C4_FindIsMembership ==
    /\ \A c \in CategoryNames :
          /\ (findCategory(root, c) # NULL) <=> (c \in inserted)
          /\ findCategory(root, c) # NULL => findCategory(root, c).category = c
    /\ cmd.choice = 2 => findCategory(root, cmd.category) = NULL

\* a node with two children was deleted, is no longer found, and both its
\* neighbours still are
C4_Witness ==
    /\ DeletedTwoChildren
    /\ findCategory(root, cmd.category) = NULL
    /\ Cardinality(inserted) >= 2
    /\ \A c \in inserted : findCategory(root, c) # NULL

(***************************************************************************)
(* Stock: decrease                                                         *)
(***************************************************************************)
\* every Product record reachable from the tree
AllProducts(node) ==
    UNION {{n.productsHead[i] : i \in 1..Len(n.productsHead)} : n \in NodeSet(node)}

\* the record at that address, as the tree holds it
ProductAt(node, addr) == CHOOSE p \in AllProducts(node) : p.addr = addr

\* C5 (as claimed): after deleteProduct(root, id, amount) the quantity of
\* every product it located is >= 0.
C5_DecreaseNeverNegative ==
    cmd.choice = 5 =>
        \A i \in 1..Len(Located(prev, cmd.productId)) :
            ProductAt(root, Located(prev, cmd.productId)[i].addr).quantity >= 0

\* C6 (as claimed, for a positive amount and a stock without negative
\* quantities): when the amount exceeds the quantity of the product
\* deleteProduct locates (the first one its walk finds), insufficient stock
\* is reported and the whole tree is as it was before the call.
C6_InsufficientStockUnchanged ==
    (/\ cmd.choice = 5
     /\ cmd.quantity > 0
     /\ \A p \in AllProducts(prev) : p.quantity >= 0
     /\ Located(prev, cmd.productId) # <<>>
     /\ cmd.quantity > Located(prev, cmd.productId)[1].quantity)
    => /\ root = prev
       /\ out[1].msg = "NotEnoughStock"

(***************************************************************************)
(* Analysis and reports                                                    *)
(***************************************************************************)
\* the last command analysed the list of the root category and reported
Analysed == cmd.choice = 7 /\ pc = "menu"
Result == out[1].result
Source == root.productsHead

\* a record without its address
Data(p) == [productId |-> p.productId, name |-> p.name,
            quantity |-> p.quantity, category |-> p.category]
\* how many records of a list carry that data
Copies(list, d) == Cardinality({i \in 1..Len(list) : Data(list[i]) = d})

\* the largest integer below t / c, for c > 0
BelowRatio(t, c) ==
    IF t > INT_MIN THEN (t - 1) \div c ELSE (((t + c) - 1) \div c) - 1
\* the largest integer not above t / c, for c > 0
FloorRatio(t, c) == t \div c

\* C7: after analyzeProducts on a non-empty list, the low list holds one
\* copy of each record whose quantity is strictly below
\* totalQuantity / count and nothing else, the high list one copy of each
\* record strictly above it and nothing else; a record at the average is
\* in neither.
C7_ClassifiedAgainstMean ==
    Analysed =>
        \A d \in {Data(Source[i]) : i \in 1..Len(Source)}
                \cup {Data(Result.lowStockProducts[i]) :
                        i \in 1..Len(Result.lowStockProducts)}
                \cup {Data(Result.highStockProducts[i]) :
                        i \in 1..Len(Result.highStockProducts)} :
            /\ Copies(Result.lowStockProducts, d) =
                  (IF d.quantity <= BelowRatio(Result.totalQuantity, Len(Source))
                   THEN Copies(Source, d) ELSE 0)
            /\ Copies(Result.highStockProducts, d) =
                  (IF d.quantity > FloorRatio(Result.totalQuantity, Len(Source))
                   THEN Copies(Source, d) ELSE 0)

\* a list with a record below, a record at and a record above the average
\* has been analysed
C7_Witness ==
    /\ Analysed
    /\ Len(Source) = 3
    /\ Len(Result.lowStockProducts) = 1
    /\ Len(Result.highStockProducts) = 1

\* the quantities of a list summed exactly, in two 16-bit-shifted limbs
RECURSIVE SumHigh(_, _)
SumHigh(list, i) ==
    IF i > Len(list) THEN 0 ELSE (list[i].quantity \div 65536) + SumHigh(list, i + 1)
RECURSIVE SumLow(_, _)
SumLow(list, i) ==
    IF i > Len(list) THEN 0 ELSE (list[i].quantity % 65536) + SumLow(list, i + 1)
\* n is the sum of the quantities of the list
IsSum(n, list) ==
    /\ n \div 65536 = SumHigh(list, 1) + (SumLow(list, 1) \div 65536)
    /\ n % 65536 = SumLow(list, 1) % 65536

\* the first position of the list whose quantity is the largest, smallest
FirstMax(list) ==
    CHOOSE i \in 1..Len(list) :
        /\ \A j \in 1..Len(list) : list[j].quantity <= list[i].quantity
        /\ \A j \in 1..(i - 1) : list[j].quantity < list[i].quantity
FirstMin(list) ==
    CHOOSE i \in 1..Len(list) :
        /\ \A j \in 1..Len(list) : list[j].quantity >= list[i].quantity
        /\ \A j \in 1..(i - 1) : list[j].quantity > list[i].quantity

\* C8 (as claimed): after analyzeProducts on a non-empty list,
\* totalQuantity is the sum of the quantities, maxStockProduct is the first
\* record with the largest quantity and minStockProduct the first record
\* with the smallest.
C8_TotalAndExtremes ==
    Analysed =>
        /\ IsSum(Result.totalQuantity, Source)
        /\ Result.maxStockProduct = Source[FirstMax(Source)]
        /\ Result.minStockProduct = Source[FirstMin(Source)]

\* C9 (as claimed, for an existing category without products): the analyze
\* command reports EmptyInput, prints no average of a zero count, and the
\* menu goes on.
C9_EmptyInputReported ==
    (cmd.choice = 7 /\ prev # NULL /\ prev.productsHead = <<>>)
    => /\ pc = "menu"
       /\ out = <<[msg |-> "EmptyInput"]>>

\* C10 (as claimed): the rows printProductsReport prints are the records of
\* the list, each once, in ascending order of product id.
C10_ListedAscendingById ==
    (cmd.choice = 8 /\ pc = "menu") =>
        /\ \A i, j \in 1..Len(out[1].rows) :
              i < j => out[1].rows[i].productId <= out[1].rows[j].productId
        /\ \A i \in 1..Len(Source) :
              Copies(out[1].rows, Data(Source[i])) = Copies(Source, Data(Source[i]))
        /\ Len(out[1].rows) = Len(Source)

(***************************************************************************)
(* The category index: insert-if-absent, delete-if-present                 *)
(***************************************************************************)
\* the names the tree holds
NamesOf(node) == {n.category : n \in NodeSet(node)}

\* C11: insertCategory on a name the tree holds returns the tree as it was
\* (and so does a second insertion of any name); on an absent name it adds
\* that one category, with an empty product list, and every other category
\* keeps its product list.
C11_InsertIfAbsent ==
    cmd.choice = 1 =>
        /\ insertCategory(root, cmd.category) = root
        /\ IF findCategory(prev, cmd.category) # NULL
           THEN root = prev
           ELSE /\ NamesOf(root) = NamesOf(prev) \cup {cmd.category}
                /\ Len(InOrder(root)) = Len(InOrder(prev)) + 1
                /\ findCategory(root, cmd.category).productsHead = <<>>
                /\ \A n \in NodeSet(prev) :
                      findCategory(root, n.category).productsHead = n.productsHead

\* a name was inserted that the tree already held, with products, among
\* other categories
C11_Witness ==
    /\ cmd.choice = 1
    /\ findCategory(prev, cmd.category) # NULL
    /\ findCategory(prev, cmd.category).productsHead # <<>>
    /\ Len(InOrder(prev)) >= 3

\* C12: deleteCategory on a name the tree does not hold returns the tree
\* as it was: same names, same structure, same product lists.
C12_DeleteAbsentIsNoOp ==
    (cmd.choice = 2 /\ findCategory(prev, cmd.category) = NULL) => root = prev

\* an absent name was deleted from a tree of three categories with products
C12_Witness ==
    /\ cmd.choice = 2
    /\ findCategory(prev, cmd.category) = NULL
    /\ Len(InOrder(prev)) = 3
    /\ ReachableAddrs(prev) # {}

(***************************************************************************)
(* Setting a quantity                                                      *)
(***************************************************************************)
\* a line with that message was printed by the last command
Printed(msg) == \E i \in 1..Len(out) : out[i].msg = msg

\* C13 (as claimed): after updateProduct(root, id, newQuantity), if a
\* product with the id was located its quantity is newQuantity and the
\* update is reported; if no product has the id, "not found" is reported
\* and the tree is as it was before.
C13_UpdateReportsOutcome ==
    cmd.choice = 4 =>
        IF Located(prev, cmd.productId) # <<>>
        THEN /\ ProductAt(root, Located(prev, cmd.productId)[1].addr).quantity
                    = cmd.quantity
             /\ Printed("Updated")
        ELSE /\ root = prev
             /\ Printed("NotFound")

(***************************************************************************)
(* Product lists: insertion in front, first match                          *)
(***************************************************************************)
\* the ids the menu is given in these specifications, and one it is not
ProductIds == {1, 2, 3}
\* the positions of a list holding that id
Holding(list, productId) ==
    {i \in 1..Len(list) : list[i].productId = productId}

\* C14: the one list of SpecReport holds every record inserted (addresses
\* count the inserts); findProduct finds nothing exactly for the ids no
\* record carries, and otherwise the record it finds is the one inserted
\* last among those carrying the id, which is the first of them in list
\* order; right after an insert it finds the record just inserted.
C14_FindsMostRecent ==
    /\ root = NULL => nalloc = 0
    /\ root # NULL =>
          /\ {Source[i].addr : i \in 1..Len(Source)} = 1..nalloc
          /\ \A id \in ProductIds :
                IF Holding(Source, id) = {}
                THEN findProduct(Source, id) = 0
                ELSE /\ findProduct(Source, id) \in Holding(Source, id)
                     /\ \A i \in Holding(Source, id) :
                           /\ findProduct(Source, id) <= i
                           /\ Source[i].addr <= Source[findProduct(Source, id)].addr
    /\ (cmd.choice = 3 /\ Printed("ProductAdded")) =>
          /\ findProduct(Source, cmd.productId) = 1
          /\ Source[1].addr = nalloc
          /\ Source[1].quantity = cmd.quantity

\* a list of three records, the id looked up carried by the two older ones
\* with different quantities, a record of another id in front of them
C14_Witness ==
    /\ root # NULL
    /\ Len(Source) = 3
    /\ Holding(Source, 1) = {2, 3}
    /\ Source[2].quantity # Source[3].quantity
    /\ findProduct(Source, 1) = 2

(***************************************************************************)
(* Adding a product through the menu                                       *)
(***************************************************************************)
\* C15: after the menu's add-product, if findCategory did not find the
\* category before, "Category does not exist" was printed and the tree is
\* as it was (no category created, no product added); if it did, the
\* names are the same, the list of that category is the new record in
\* front of the list it had, and every other category keeps its list.
C15_AddProductNeedsCategory ==
    cmd.choice = 3 =>
        IF findCategory(prev, cmd.category) = NULL
        THEN /\ root = prev
             /\ out = <<[msg |-> "CategoryDoesNotExist"]>>
        ELSE /\ out = <<[msg |-> "ProductAdded"]>>
             /\ NamesOf(root) = NamesOf(prev)
             /\ Len(InOrder(root)) = Len(InOrder(prev))
             /\ LET new == findCategory(root, cmd.category).productsHead
                    old == findCategory(prev, cmd.category).productsHead
                IN  /\ new # <<>>
                    /\ Tail(new) = old
                    /\ new[1].productId = cmd.productId
                    /\ new[1].name = cmd.productName
                    /\ new[1].quantity = cmd.quantity
                    /\ new[1].addr \notin ReachableAddrs(prev)
             /\ \A n \in NodeSet(prev) :
                   n.category # cmd.category =>
                      findCategory(root, n.category).productsHead = n.productsHead

\* a product was added under a name missing from an index of two or more
\* categories that hold products
C15_Witness ==
    /\ cmd.choice = 3
    /\ findCategory(prev, cmd.category) = NULL
    /\ Len(InOrder(prev)) >= 2
    /\ ReachableAddrs(prev) # {}

(***************************************************************************)
(* The operations that only read                                           *)
(***************************************************************************)
\* the addresses of the records of a list
AddrsOf(list) == {list[i].addr : i \in 1..Len(list)}

\* C16: after displayCategories (6), analyzeProducts (7) and
\* printProductsReport (8) the tree is the tree before the command: same
\* categories, same records, same quantities, same list order; and the
\* records of the low and high lists of an analysis are records of their
\* own, none of them a record of the tree and no two of them the same.
C16_ReadOnlyOperations ==
    /\ cmd.choice \in {6, 7, 8} => root = prev
    /\ Analysed =>
          /\ AddrsOf(Result.lowStockProducts) \cap ReachableAddrs(root) = {}
          /\ AddrsOf(Result.highStockProducts) \cap ReachableAddrs(root) = {}
          /\ AddrsOf(Result.lowStockProducts)
                \cap AddrsOf(Result.highStockProducts) = {}
          /\ Cardinality(AddrsOf(Result.lowStockProducts))
                = Len(Result.lowStockProducts)
          /\ Cardinality(AddrsOf(Result.highStockProducts))
                = Len(Result.highStockProducts)

\* an analysis of three records gave a low list and a high list
C16_Witness ==
    /\ Analysed
    /\ Len(Source) = 3
    /\ Result.lowStockProducts # <<>>
    /\ Result.highStockProducts # <<>>

(***************************************************************************)
(* The worked example                                                      *)
(***************************************************************************)
\* what the example says of a record: id, name, quantity
Key(p) == [productId |-> p.productId, name |-> p.name, quantity |-> p.quantity]
KeysOf(list) == [i \in 1..Len(list) |-> Key(list[i])]
HammerKey == [productId |-> 1, name |-> Hammer, quantity |-> 10]
NailKey == [productId |-> 2, name |-> Nail, quantity |-> 100]
ScrewdriverKey == [productId |-> 3, name |-> Screwdriver, quantity |-> 5]

\* Tools is the root category and holds exactly Hammer, Nail, Screwdriver,
\* allocated (hence inserted) in that order
ScenarioAdded ==
    /\ root # NULL
    /\ root.category = Tools
    /\ Len(Source) = 3
    /\ \E i, j, k \in 1..3 :
          /\ Source[i].addr < Source[j].addr
          /\ Source[j].addr < Source[k].addr
          /\ Key(Source[i]) = HammerKey
          /\ Key(Source[j]) = NailKey
          /\ Key(Source[k]) = ScrewdriverKey

\* C17: inserting Food into the index that holds Tools alone gives the
\* traversal Food, Tools; analysing Tools after Hammer(10), Nail(100),
\* Screwdriver(5) were added in that order gives total 115, average 115/3,
\* max Nail, min Screwdriver, low list Hammer, Screwdriver in that order,
\* high list Nail.
C17_Scenario ==
    /\ (cmd.choice = 1 /\ cmd.category = Food
            /\ prev # NULL /\ NamesOf(prev) = {Tools})
          => InOrderNames(root) = <<Food, Tools>>
    /\ (Analysed /\ ScenarioAdded) =>
          /\ Result.totalQuantity = 115
          /\ Result.count = 3
          /\ Result.averageQuantity = [num |-> 115, den |-> 3]
          /\ Key(Result.maxStockProduct) = NailKey
          /\ Key(Result.minStockProduct) = ScrewdriverKey
          /\ KeysOf(Result.lowStockProducts) = <<HammerKey, ScrewdriverKey>>
          /\ KeysOf(Result.highStockProducts) = <<NailKey>>

\* the example was run: Tools above Food, the three products, the analysis
C17_Witness ==
    /\ Analysed
    /\ ScenarioAdded
    /\ InOrderNames(root) = <<Food, Tools>>

(***************************************************************************)
(* Labels, order of the result lists, sign of the quantities               *)
(***************************************************************************)
\* C18 (as claimed): the category label of every record is the name of the
\* category whose list holds it.
C18_LabelIsOwningCategory ==
    \A n \in NodeSet(root) :
        \A i \in 1..Len(n.productsHead) :
            n.productsHead[i].category = n.category

\* the data of the records of a list, in list order
DataOf(list) == [i \in 1..Len(list) |-> Data(list[i])]
Reverse(s) == [i \in 1..Len(s) |-> s[(Len(s) + 1) - i]]
\* the records of the analysed list of which a result list holds a copy,
\* in the order of the analysed list
SourceOf(result) ==
    LET Copied(p) == Copies(result, Data(p)) > 0
    IN  SelectSeq(Source, Copied)

\* C19 (as claimed, for quantities whose total does not overflow): the
\* records of the low list, and those of the high list, stand in the order
\* they have in the analysed list.
C19_CollectionOrderKept ==
    (Analysed /\ \A i \in 1..Len(Source) : Source[i].quantity < INT_MAX) =>
        /\ DataOf(Result.lowStockProducts)
              = DataOf(SourceOf(Result.lowStockProducts))
        /\ DataOf(Result.highStockProducts)
              = DataOf(SourceOf(Result.highStockProducts))

\* C19 (amended): the records of the low list, and those of the high list,
\* stand in the reverse of the order they have in the analysed list.
C19_CollectionOrderReversed ==
    Analysed =>
        /\ DataOf(Result.lowStockProducts)
              = Reverse(DataOf(SourceOf(Result.lowStockProducts)))
        /\ DataOf(Result.highStockProducts)
              = Reverse(DataOf(SourceOf(Result.highStockProducts)))

\* an analysis whose low list holds two records that differ
C19_Witness ==
    /\ Analysed
    /\ Len(Result.lowStockProducts) = 2
    /\ Data(Result.lowStockProducts[1]) # Data(Result.lowStockProducts[2])

\* C20 (as claimed): no record of the tree has a quantity below zero.
C20_QuantityNonNegative ==
    \A p \in AllProducts(root) : p.quantity >= 0

(***************************************************************************)
(* One call, one product                                                   *)
(***************************************************************************)
\* the addresses of the records whose quantity the last command changed
Changed ==
    {p.addr : p \in {q \in AllProducts(prev) :
                        /\ q.addr \in ReachableAddrs(root)
                        /\ ProductAt(root, q.addr).quantity # q.quantity}}

\* no record of the tree before the last command had a negative quantity
StockWasNonNegative == \A p \in AllProducts(prev) : p.quantity >= 0

\* C21 (as claimed, for a stock without negative quantities): one
\* updateProduct or deleteProduct call changes the quantity of at most one
\* record of the tree, also when several categories hold a record with the
\* id.
C21_AtMostOneChanged ==
    (cmd.choice \in {4, 5} /\ StockWasNonNegative) => Cardinality(Changed) <= 1

(***************************************************************************)
(* A decrease does not raise stock                                         *)
(***************************************************************************)
\* new is old - amount and the subtraction does not leave the range of int
IsDifference(new, old, amount) ==
    IF amount >= 0
    THEN old >= INT_MIN + amount /\ new = old - amount
    ELSE old <= INT_MAX + amount /\ new = old - amount

\* C22 (as claimed, for a stock without negative quantities): after
\* deleteProduct(root, id, amount), for any int amount, the quantity of
\* each record it located is at most what it was, and where the decrease
\* was accepted it is the old quantity minus the amount, not wrapped.
C22_DecreaseNeverRaises ==
    (cmd.choice = 5 /\ StockWasNonNegative) =>
        \A i \in 1..Len(Located(prev, cmd.productId)) :
            LET old == Located(prev, cmd.productId)[i].quantity
                new == ProductAt(root, Located(prev, cmd.productId)[i].addr).quantity
            IN  /\ new <= old
                /\ out[i].msg = "Decreased" => IsDifference(new, old, cmd.quantity)

(***************************************************************************)
(* The command loop                                                        *)
(***************************************************************************)
\* C23 (as claimed; for the analysis and the listing, of a root category
\* that holds products): after every command other than Exit the menu is
\* offered again, Display-all included, and after Exit (9) the loop has
\* ended and no further command is read.
C23_LoopEndsOnExitOnly ==
    /\ cmd.choice \in {1, 2, 3, 4, 5, 6, 10} => pc = "menu"
    /\ (cmd.choice \in {7, 8} /\ prev # NULL /\ prev.productsHead # <<>>)
          => pc = "menu"
    /\ cmd.choice = 9 => pc = "done"

(***************************************************************************)
(* Loading the product file                                                *)
(***************************************************************************)
\* C24 (as claimed): when the menu loop starts, every record of the
\* product file is in the list of the category the record names.
C24_LoadedProductsReachable ==
    (pc = "menu" /\ cmd = NoCmd /\ productsFile.open) =>
        \A i \in 1..Len(productsFile.records) :
            LET r == productsFile.records[i]
            IN  /\ findCategory(root, r.category) # NULL
                /\ \E j \in 1..Len(findCategory(root, r.category).productsHead) :
                      LET p == findCategory(root, r.category).productsHead[j]
                      IN  /\ p.productId = r.productId
                          /\ p.name = r.name
                          /\ p.quantity = r.quantity

=============================================================================
